---- MODULE Spec2Model ----
(***************************************************************************)
(* Model of authpy.py: the Authpy dispatcher, its five strategy handlers,  *)
(* AuthException and the make_signer convenience function.                 *)
(*                                                                         *)
(* The oci library (from_file, Signer, the signers module), os.getenv and   *)
(* open()                                                                  *)
(* are external collaborators.  Their behaviour is an oracle, the "world"  *)
(* record w, drawn fresh for every call:                                   *)
(*   w.env    os.environ for the two delegation variables                  *)
(*   w.fs     what from_file finds: location -> profile -> section         *)
(*   w.token  the delegation token file: present? readable? its content    *)
(*   w.prov   what the signer primitive does: outcome of the constructor   *)
(*            and outcome of reading region / tenancy_id off the signer    *)
(* Every handler is an operator from (self, w) to an outcome record        *)
(*   [kind |-> "return", val |-> <<cfg, signer>>, io, open]                *)
(*   [kind |-> "raise",  exc |-> exception,       io, open]                *)
(* where io is the sequence of external calls made and open the set of     *)
(* file handles still open when the handler is left.                       *)
(***************************************************************************)
EXTENDS Integers, Sequences, FiniteSets, TLC

VARIABLES authpy, call, world, result, io, openFiles

vars == <<authpy, call, world, result, io, openFiles>>

(***************************************************************************)
(* Bounds                                                                  *)
(***************************************************************************)
\* longest token file content, in characters
MaxLen == 3

(***************************************************************************)
(* Globals of authpy.py and of oci.config                                  *)
(***************************************************************************)
AUTH_PROFILE == "profile"

AUTH_INSTANCE_PRINCIPAL == "instance_principal"

AUTH_RESOURCE_PRINCIPAL == "resource_principal"

AUTH_WORKLOAD_PRINCIPAL == "workload_principal"

AUTH_DELEGATION_TOKEN == "delegation_token"

DEFAULT_PROFILE == "DEFAULT"

DEFAULT_LOCATION == "~/.oci/config"

\* Python's None (os.getenv of an unset variable, dict.get of a missing key)
None == "None"

(***************************************************************************)
(* Python values: strings, exceptions, outcomes                            *)
(***************************************************************************)
\* the argument handed to an exception constructor: a str ...
PyStr(s) == [kind |-> "str", msg |-> s]

\* AuthException.__str__ ; str() of any other exception is its message
Str(e) ==
    IF e.type = "AuthException" THEN "AuthException: " \o e.error.msg
    ELSE e.error.msg

\* ... or an exception object (kept with its type and its str())
PyObj(e) == [kind |-> e.type, msg |-> Str(e)]

AuthException(error) == [type |-> "AuthException", error |-> error]

\* dict[key] on a missing key: str(KeyError('k')) is "'k'"
KeyError(key) == [type |-> "KeyError", error |-> PyStr("'" \o key \o "'")]

Return(v, log, handles) ==
    [kind |-> "return", val |-> v, io |-> log, open |-> handles]

Raise(e, log, handles) ==
    [kind |-> "raise", exc |-> e, io |-> log, open |-> handles]

(***************************************************************************)
(* The external world                                                      *)
(***************************************************************************)
Locations == {DEFAULT_LOCATION, "/etc/oci/config"}

Profiles == {DEFAULT_PROFILE, "CLOUDSHELL"}

\* the path the delegation section names
TokenPath == "/etc/oci/delegation_token"

\* a complete user section of a config file
SecProfile ==
    [k \in {"tenancy", "user", "fingerprint", "key_file"} |->
        CASE k = "tenancy" -> "t1"
          [] k = "user" -> "u1"
          [] k = "fingerprint" -> "f1"
          [] k = "key_file" -> "/path/key.pem"]

\* a section that lacks the tenancy field
SecNoTenancy ==
    [k \in {"user", "fingerprint", "key_content", "pass_phrase"} |->
        CASE k = "user" -> "u1"
          [] k = "fingerprint" -> "f1"
          [] k = "key_content" -> "PEM"
          [] k = "pass_phrase" -> "secret"]

\* a Cloud Shell section, naming the delegation token file
SecDelegation ==
    [k \in {"tenancy", "region", "delegation_token_file"} |->
        CASE k = "tenancy" -> "t1"
          [] k = "region" -> "r1"
          [] k = "delegation_token_file" -> TokenPath]

\* no config file anywhere
FsEmpty == [l \in {} |-> l]

\* only the default file, with a user section and a Cloud Shell section
FsHome ==
    [l \in {DEFAULT_LOCATION} |->
        [p \in Profiles |->
            IF p = DEFAULT_PROFILE THEN SecProfile ELSE SecDelegation]]

\* both files; the default one is incomplete, the other has no delegation
\* field in its DEFAULT section
FsBoth ==
    [l \in Locations |->
        IF l = DEFAULT_LOCATION
        THEN [p \in {DEFAULT_PROFILE} |-> SecNoTenancy]
        ELSE [p \in Profiles |->
                 IF p = DEFAULT_PROFILE THEN SecProfile ELSE SecDelegation]]

FileSystems == {FsEmpty, FsHome, FsBoth}

EnvVars == {"OCI_CONFIG_FILE", "OCI_CONFIG_PROFILE"}

\* os.environ: each variable unset (None), empty, or set
Envs ==
    {[v \in EnvVars |-> IF v = "OCI_CONFIG_FILE" THEN f ELSE p] :
        f \in {None, "", "/etc/oci/config"},
        p \in {None, ""} \cup Profiles}

Whitespace == {" ", "\n"}

Chars == Whitespace \cup {"a"}

SeqUpTo(n) == UNION {[1..k -> Chars] : k \in 0..n}

\* the token file: absent, present but failing on read, or readable
TokenFiles ==
    {[exists |-> FALSE, readable |-> FALSE, content |-> <<>>],
     [exists |-> TRUE, readable |-> FALSE, content |-> <<>>]}
    \cup [exists : {TRUE}, readable : {TRUE}, content : SeqUpTo(MaxLen)]

\* what a signer primitive can do: succeed or raise
Outcomes == {"ok", "KeyError", "ServiceError"}

ProviderError(kind) == [type |-> kind, error |-> PyStr("provider failure")]

(***************************************************************************)
(* External primitives.  Each yields [kind, val] or [kind, exc].           *)
(***************************************************************************)
\* os.getenv(name): the value, or None when unset
getenv(name, w) == w.env[name]

\* oci.config.from_file(file_location, profile_name)
from_file(file_location, profile_name, w) ==
    IF file_location \notin DOMAIN w.fs
    THEN [kind |-> "raise",
          exc |-> [type |-> "ConfigFileNotFound",
                   error |-> PyStr("Could not find config file")]]
    ELSE IF profile_name \notin DOMAIN w.fs[file_location]
    THEN [kind |-> "raise",
          exc |-> [type |-> "ProfileNotFound",
                   error |-> PyStr("Profile not found in config file")]]
    ELSE [kind |-> "return", val |-> w.fs[file_location][profile_name]]

\* dict.get(key): the value or None
Get(config, key) == IF key \in DOMAIN config THEN config[key] ELSE None

\* oci.config.get_config_value_or_default(config, key); the library's
\* default for pass_phrase is None
get_config_value_or_default(config, key) == Get(config, key)

\* a signer constructor of the provider: the signer, or the provider's error
Construct(signer, w) ==
    IF w.prov.construct = "ok" THEN [kind |-> "return", val |-> signer]
    ELSE [kind |-> "raise", exc |-> ProviderError(w.prov.construct)]

\* reading signer.region / signer.tenancy_id
ReadAttrs(signer, w) ==
    IF w.prov.attr = "ok"
    THEN [kind |-> "return",
          val |-> [k \in {"region", "tenancy"} |->
                      IF k = "region" THEN signer.region
                      ELSE signer.tenancy_id]]
    ELSE [kind |-> "raise", exc |-> ProviderError(w.prov.attr)]

\* open(path, 'r')
open(path, w) ==
    IF path = TokenPath /\ w.token.exists
    THEN [kind |-> "return", val |-> path]
    ELSE [kind |-> "raise",
          exc |-> [type |-> "FileNotFoundError",
                   error |-> PyStr("No such file or directory")]]

\* file.read()
read(handle, w) ==
    IF w.token.readable
    THEN [kind |-> "return", val |-> w.token.content]
    ELSE [kind |-> "raise",
          exc |-> [type |-> "OSError", error |-> PyStr("Input/output error")]]

\* str.strip(): drop leading, then trailing, whitespace
RECURSIVE lstrip(_)
lstrip(s) ==
    IF s # <<>> /\ Head(s) \in Whitespace THEN lstrip(Tail(s)) ELSE s

RECURSIVE rstrip(_)
rstrip(s) ==
    IF s # <<>> /\ s[Len(s)] \in Whitespace
    THEN rstrip(SubSeq(s, 1, Len(s) - 1))
    ELSE s

\* a strip that forgets the trailing side
strip_leading_only(s) == lstrip(s)

strip(s) == rstrip(lstrip(s))

(***************************************************************************)
(* class Authpy                                                            *)
(***************************************************************************)
\* Authpy.__init__
Authpy(profile, location) == [profile |-> profile, location |-> location]

\* create_profile_signer: no try block, every error leaves as raised
create_profile_signer(self, w) ==
    LET c == from_file(self.location, self.profile, w)
        log1 == <<"from_file">>
    IN  IF c.kind = "raise" THEN Raise(c.exc, log1, {})
        ELSE LET config == c.val IN
        IF "tenancy" \notin DOMAIN config
        THEN Raise(KeyError("tenancy"), log1, {})
        ELSE IF "user" \notin DOMAIN config
        THEN Raise(KeyError("user"), log1, {})
        ELSE IF "fingerprint" \notin DOMAIN config
        THEN Raise(KeyError("fingerprint"), log1, {})
        ELSE
        LET s == Construct(
                    [type |-> "Signer",
                     tenancy |-> config["tenancy"],
                     user |-> config["user"],
                     fingerprint |-> config["fingerprint"],
                     private_key_file_location |-> Get(config, "key_file"),
                     pass_phrase |->
                         get_config_value_or_default(config, "pass_phrase"),
                     private_key_content |-> Get(config, "key_content")], w)
            log2 == log1 \o <<"provider">>
        IN  IF s.kind = "raise" THEN Raise(s.exc, log2, {})
            ELSE Return(<<config, s.val>>, log2, {})

\* the body shared by the three principal handlers: obtain the signer, then
\* build cfg from the signer's own region and tenancy_id
principal_signer(primitive, w) ==
    LET s == Construct([type |-> primitive,
                        region |-> "us-phoenix-1",
                        tenancy_id |-> "ocid1.tenancy.oc1"], w)
        log1 == <<"provider">>
    IN  IF s.kind = "raise" THEN Raise(s.exc, log1, {})
        ELSE LET cfg == ReadAttrs(s.val, w) IN
             IF cfg.kind = "raise" THEN Raise(cfg.exc, log1, {})
             ELSE Return(<<cfg.val, s.val>>, log1, {})

\* except Exception as e: raise AuthException(e)
ExceptObj(r) ==
    IF r.kind = "raise"
    THEN Raise(AuthException(PyObj(r.exc)), r.io, r.open)
    ELSE r

\* a handler whose try block is missing
ExceptStr_absent(r) == r

\* except Exception as e: raise AuthException(str(e))
ExceptStr(r) ==
    IF r.kind = "raise"
    THEN Raise(AuthException(PyStr(Str(r.exc))), r.io, r.open)
    ELSE r

create_instance_principal_signer(self, w) ==
    ExceptObj(principal_signer("InstancePrincipalsSecurityTokenSigner", w))

\* the check with "and" in place of "or"
env_missing_both(env_config_file, env_config_section) ==
    /\ env_config_file \in {None, ""}
    /\ env_config_section \in {None, ""}

\* if not env_config_file or not env_config_section
env_missing(env_config_file, env_config_section) ==
    \/ env_config_file \in {None, ""}
    \/ env_config_section \in {None, ""}

\* a close written at the end of the block instead of a with statement
WithExit_on_return(r, handle) ==
    IF r.kind = "return"
    THEN [r EXCEPT !.io = @ \o <<"close">>, !.open = @ \ {handle}]
    ELSE r

\* leaving the with block, by return or by exception, closes the file
WithExit(r, handle) ==
    [r EXCEPT !.io = @ \o <<"close">>, !.open = @ \ {handle}]

\* the body of the with block: read, strip, build the signer, return
with_body(handle, config, log2, w) ==
    LET rd == read(handle, w)
        log3 == log2 \o <<"read">>
    IN  IF rd.kind = "raise" THEN Raise(rd.exc, log3, {handle})
        ELSE
        LET delegation_token == strip(rd.val)
            s == Construct(
                    [type |-> "InstancePrincipalsDelegationTokenSigner",
                     delegation_token |-> delegation_token], w)
            log4 == log3 \o <<"provider">>
        IN  IF s.kind = "raise" THEN Raise(s.exc, log4, {handle})
            ELSE Return(<<config, s.val>>, log4, {handle})

\* the try block of create_delegation_token_signer
delegation_try(w) ==
    LET env_config_file == getenv("OCI_CONFIG_FILE", w)
        env_config_section == getenv("OCI_CONFIG_PROFILE", w)
        log0 == <<"getenv", "getenv">>
    IN  IF env_missing(env_config_file, env_config_section)
        THEN Raise(AuthException(PyStr(
                 "Required environment variables for delgation not found")),
                 log0, {})
        ELSE
        LET c == from_file(env_config_file, env_config_section, w)
            log1 == log0 \o <<"from_file">>
        IN  IF c.kind = "raise" THEN Raise(c.exc, log1, {})
            ELSE LET config == c.val IN
            IF "delegation_token_file" \notin DOMAIN config
            THEN Raise(KeyError("delegation_token_file"), log1, {})
            ELSE
            LET f == open(config["delegation_token_file"], w)
                log2 == log1 \o <<"open">>
            IN  IF f.kind = "raise" THEN Raise(f.exc, log2, {})
                ELSE WithExit(with_body(f.val, config, log2, w), f.val)

create_delegation_token_signer(self, w) == ExceptStr(delegation_try(w))

create_workload_principal_signer(self, w) ==
    ExceptStr(principal_signer(
        "get_oke_workload_identity_resource_principal_signer", w))

\* no try block
create_resource_principal(self, w) ==
    principal_signer("get_resource_principals_signer", w)

\* the keys of the func table of create_signer
Registered ==
    {AUTH_PROFILE, AUTH_INSTANCE_PRINCIPAL, AUTH_DELEGATION_TOKEN,
     AUTH_WORKLOAD_PRINCIPAL, AUTH_RESOURCE_PRINCIPAL}

\* func[auth_type]() for a registered auth_type
func(auth_type, self, w) ==
    CASE auth_type = AUTH_PROFILE -> create_profile_signer(self, w)
      [] auth_type = AUTH_INSTANCE_PRINCIPAL ->
             create_instance_principal_signer(self, w)
      [] auth_type = AUTH_DELEGATION_TOKEN ->
             create_delegation_token_signer(self, w)
      [] auth_type = AUTH_WORKLOAD_PRINCIPAL ->
             create_workload_principal_signer(self, w)
      [] auth_type = AUTH_RESOURCE_PRINCIPAL ->
             create_resource_principal(self, w)

\* except KeyError: raise AuthException('Invalid authentication type')
ExceptKeyError(r) ==
    IF r.kind = "raise" /\ r.exc.type = "KeyError"
    THEN Raise(AuthException(PyStr("Invalid authentication type")),
               r.io, r.open)
    ELSE r

\* a dispatcher that falls back to the profile handler
create_signer_fallback(self, auth_type, w) ==
    ExceptKeyError(
        IF auth_type \notin Registered
        THEN create_profile_signer(self, w)
        ELSE func(auth_type, self, w))

\* the lookup and the handler call sit in the same try block
create_signer(self, auth_type, w) ==
    ExceptKeyError(
        IF auth_type \notin Registered
        THEN Raise(KeyError(auth_type), <<>>, {})
        ELSE func(auth_type, self, w))

\* a convenience entry that drops its profile and location arguments
make_signer_defaults(authentication_type, profile, location, w) ==
    create_signer(Authpy(DEFAULT_PROFILE, DEFAULT_LOCATION),
                  authentication_type, w)

\* make_signer(authentication_type, profile, location)
make_signer(authentication_type, profile, location, w) ==
    create_signer(Authpy(profile, location), authentication_type, w)

(***************************************************************************)
(* The program as a state machine.  A process starts in some world, holds  *)
(* one Authpy object, and calls create_signer on it or make_signer.        *)
(*   authpy     the dispatcher object of the caller                        *)
(*   call       the last call made: entry point and arguments              *)
(*   result     its outcome: the returned pair or the raised exception     *)
(*   io         the external calls it made, in order                       *)
(*   openFiles  the file handles the process holds open                    *)
(***************************************************************************)
\* the strategy names callers pass: the registered ones and unknown ones
AuthTypes == Registered \cup {"api_key", "Profile"}

EnvUnset == [v \in EnvVars |-> None]

EnvCloudShell ==
    [v \in EnvVars |->
        IF v = "OCI_CONFIG_FILE" THEN "/etc/oci/config" ELSE "CLOUDSHELL"]

TokenAbsent == [exists |-> FALSE, readable |-> FALSE, content |-> <<>>]

TokenPadded ==
    [exists |-> TRUE, readable |-> TRUE, content |-> <<" ", "a", "\n">>]

ProvOk == [construct |-> "ok", attr |-> "ok"]

\* the worlds a process is started in: every token file under a Cloud Shell
\* environment, every environment and file system with a fixed token file,
\* every provider behaviour with no delegation environment
Worlds ==
    [env : {EnvCloudShell}, fs : {FsBoth}, token : TokenFiles,
     prov : [construct : Outcomes, attr : {"ok"}]]
    \cup [env : Envs, fs : FileSystems, token : {TokenPadded}, prov : {ProvOk}]
    \cup [env : {EnvUnset}, fs : FileSystems, token : {TokenAbsent},
          prov : [construct : Outcomes, attr : Outcomes]]

NoCall == [entry |-> "none", auth_type |-> "", profile |-> "", location |-> ""]

NoResult == [kind |-> "none"]

\* what the caller sees of an outcome
Seen(r) ==
    IF r.kind = "return" THEN [kind |-> "return", val |-> r.val]
    ELSE [kind |-> "raise", exc |-> r.exc]

Init ==
    /\ authpy \in {Authpy(p, l) : p \in Profiles, l \in Locations}
    /\ world \in Worlds
    /\ call = NoCall
    /\ result = NoResult
    /\ io = <<>>
    /\ openFiles = {}

\* the caller constructs a dispatcher
AuthpyInit(profile, location) ==
    /\ authpy' = Authpy(profile, location)
    /\ UNCHANGED <<call, world, result, io, openFiles>>

\* authpy.create_signer(auth_type)
CreateSigner(auth_type) ==
    LET r == create_signer(authpy, auth_type, world) IN
    /\ call' = [entry |-> "create_signer", auth_type |-> auth_type,
                profile |-> authpy.profile, location |-> authpy.location]
    /\ result' = Seen(r)
    /\ io' = r.io
    /\ openFiles' = openFiles \cup r.open
    /\ UNCHANGED <<authpy, world>>

\* make_signer(authentication_type, profile, location)
MakeSigner(authentication_type, profile, location) ==
    LET r == make_signer(authentication_type, profile, location, world) IN
    /\ call' = [entry |-> "make_signer", auth_type |-> authentication_type,
                profile |-> profile, location |-> location]
    /\ result' = Seen(r)
    /\ io' = r.io
    /\ openFiles' = openFiles \cup r.open
    /\ UNCHANGED <<authpy, world>>

Next ==
    \/ \E p \in Profiles, l \in Locations : AuthpyInit(p, l)
    \/ \E t \in AuthTypes : CreateSigner(t)
    \/ \E t \in AuthTypes, p \in Profiles, l \in Locations : MakeSigner(t, p, l)

Spec == Init /\ [][Next]_vars

TypeOK ==
    /\ authpy \in [profile : Profiles, location : Locations]
    /\ world \in Worlds
    /\ call.entry \in {"none", "create_signer", "make_signer"}
    /\ result.kind \in {"none", "return", "raise"}
    /\ openFiles \subseteq {TokenPath}

(***************************************************************************)
(* Properties                                                              *)
(***************************************************************************)
FiveStrategies ==
    {"profile", "instance_principal", "resource_principal",
     "workload_principal", "delegation_token"}

Called == call.entry # "none"

Dispatched(auth_type) == Called /\ call.auth_type = auth_type

\* the dispatcher the last call ran on
Self == Authpy(call.profile, call.location)

\* a required delegation variable is unset or empty
EnvLacking ==
    \E v \in {"OCI_CONFIG_FILE", "OCI_CONFIG_PROFILE"} :
        world.env[v] \in {None, ""}

Did(event) == \E i \in 1..Len(io) : io[i] = event

\* C1: for every strategy identifier outside the five registered ones,
\* create_signer fails with AuthException and has made no external call at
\* all (no getenv, no from_file, no open, no provider primitive).
C1_UnknownStrategyNoIO ==
    (Called /\ call.auth_type \notin FiveStrategies) =>
        /\ result.kind = "raise"
        /\ result.exc.type = "AuthException"
        /\ io = <<>>

\* an unknown strategy was tried where the profile handler would succeed
C1_Witness ==
    /\ call.entry = "create_signer"
    /\ call.auth_type = "api_key"
    /\ world.fs = FsHome /\ world.prov = ProvOk
    /\ call.location = DEFAULT_LOCATION
    /\ result.kind = "raise"

\* C2: AuthException("Invalid authentication type") is raised only for an
\* unregistered strategy, and for a registered strategy the outcome of
\* create_signer is exactly the outcome of that strategy's handler.
C2_DispatcherVerbatim ==
    Called =>
        /\ (/\ result.kind = "raise"
            /\ result.exc =
                   AuthException(PyStr("Invalid authentication type")))
               => call.auth_type \notin FiveStrategies
        /\ call.auth_type \in FiveStrategies
               => result = Seen(func(call.auth_type, Self, world))

\* C3: for the Profile strategy every failure of the parse or of the signer
\* construction reaches the caller as an AuthException wrapping it.
C3_ProfileErrorsWrapped ==
    LET h == create_profile_signer(Self, world) IN
    (Dispatched("profile") /\ h.kind = "raise") =>
        /\ result.kind = "raise"
        /\ result.exc.type = "AuthException"
        /\ result.exc.error.msg = Str(h.exc)

\* the pair a successful call returns is complete for its strategy
FullyPopulated ==
    LET cfg == result.val[1]
        signer == result.val[2]
    IN  IF call.auth_type = "delegation_token"
        THEN /\ cfg = world.fs[world.env["OCI_CONFIG_FILE"]]
                              [world.env["OCI_CONFIG_PROFILE"]]
             /\ signer.type = "InstancePrincipalsDelegationTokenSigner"
             /\ "delegation_token" \in DOMAIN signer
        ELSE /\ DOMAIN cfg = {"region", "tenancy"}
             /\ cfg["region"] = signer.region
             /\ cfg["tenancy"] = signer.tenancy_id

\* C4: for InstancePrincipal, WorkloadPrincipal and DelegationToken every
\* call ends with a fully populated (cfg, signer) pair or with an
\* AuthException, whatever the provider, the parse, the section's fields or
\* the token file do.
C4_PairOrAuthError ==
    (Called /\ call.auth_type \in {"instance_principal",
                                   "workload_principal",
                                   "delegation_token"}) =>
        \/ result.kind = "return" /\ FullyPopulated
        \/ result.kind = "raise" /\ result.exc.type = "AuthException"

\* the delegation section lacks delegation_token_file, and the call failed
C4_Witness ==
    /\ Dispatched("delegation_token")
    /\ world.fs = FsBoth
    /\ world.env["OCI_CONFIG_FILE"] = "/etc/oci/config"
    /\ world.env["OCI_CONFIG_PROFILE"] = "DEFAULT"
    /\ result.kind = "raise"
    /\ result.exc.type = "AuthException"

\* C5: for the ResourcePrincipal strategy every provider error, from
\* obtaining the signer or from reading region / tenancy, reaches the caller
\* as the original error, never as an AuthException.
C5_ResourceErrorsUnwrapped ==
    LET raised == IF world.prov.construct # "ok" THEN world.prov.construct
                  ELSE world.prov.attr
    IN  (Dispatched("resource_principal") /\ raised # "ok") =>
            /\ result.kind = "raise"
            /\ result.exc = ProviderError(raised)

\* C6: for the DelegationToken strategy with a required variable unset or
\* empty, create_signer fails with AuthException and has opened no file and
\* called neither the config parser nor a provider primitive.
C6_EnvCheckedFirst ==
    (Dispatched("delegation_token") /\ EnvLacking) =>
        /\ result.kind = "raise"
        /\ result.exc.type = "AuthException"
        /\ ~ Did("from_file") /\ ~ Did("open")
        /\ ~ Did("read") /\ ~ Did("provider")

\* only the section name is missing, and the named file exists
C6_Witness ==
    /\ Dispatched("delegation_token")
    /\ world.env["OCI_CONFIG_FILE"] = "/etc/oci/config"
    /\ world.env["OCI_CONFIG_PROFILE"] = None
    /\ world.fs = FsBoth
    /\ result.kind = "raise"

\* C7: for the DelegationToken strategy with a required variable unset or
\* empty, the AuthException reaching the caller carries exactly the message
\* "Required environment variables for delegation not found".
C7_EnvErrorMessage ==
    (Dispatched("delegation_token") /\ EnvLacking) =>
        /\ result.kind = "raise"
        /\ result.exc = AuthException(PyStr(
               "Required environment variables for delegation not found"))

\* C8: when the DelegationToken strategy succeeds, the signer's token is the
\* token file's content without its leading and trailing whitespace, the
\* characters in between unchanged, and cfg is the full parsed section.
C8_TokenTrimmed ==
    (Dispatched("delegation_token") /\ result.kind = "return") =>
        LET token == result.val[2].delegation_token
            content == world.token.content
            n == Len(content)
        IN  /\ \E i \in 0..n :
                  /\ i + Len(token) <= n
                  /\ token = SubSeq(content, i + 1, i + Len(token))
                  /\ \A k \in 1..n :
                         (k <= i \/ k > i + Len(token))
                             => content[k] \in {" ", "\n"}
            /\ token # <<>> =>
                  /\ token[1] \notin {" ", "\n"}
                  /\ token[Len(token)] \notin {" ", "\n"}
            /\ result.val[1] = world.fs[world.env["OCI_CONFIG_FILE"]]
                                       [world.env["OCI_CONFIG_PROFILE"]]

\* a token file padded on both sides was read and the call returned
C8_Witness ==
    /\ Dispatched("delegation_token")
    /\ world.token.content = <<" ", "a", "\n">>
    /\ result.kind = "return"
    /\ result.val[2].delegation_token = <<"a">>

\* C9: make_signer(strategy, profile, location) has the outcome of
\* create_signer(strategy) on a dispatcher constructed with that profile and
\* location, for every strategy, registered or not.
C9_MakeSignerIsCreateSigner ==
    call.entry = "make_signer" =>
        LET r == create_signer(Authpy(call.profile, call.location),
                               call.auth_type, world)
        IN  /\ result = Seen(r)
            /\ io = r.io

\* make_signer succeeded on a location that is not the default one, in a
\* world where the default location's section is incomplete
C9_Witness ==
    /\ call.entry = "make_signer"
    /\ call.auth_type = "profile"
    /\ call.location = "/etc/oci/config"
    /\ world.fs = FsBoth
    /\ result.kind = "return"

\* C10: after a DelegationToken call no token file handle stays open: once
\* the file was opened, the call's last external action is its close, on
\* return, on a failed read and on a failed signer construction alike.
C10_TokenFileClosed ==
    Dispatched("delegation_token") =>
        /\ openFiles = {}
        /\ (Did("open") /\ world.token.exists) => io[Len(io)] = "close"

\* the signer construction failed after the token file was opened and read
C10_Witness ==
    /\ Dispatched("delegation_token")
    /\ Did("open") /\ Did("read") /\ Did("provider")
    /\ result.kind = "raise"

====
